---- MODULE Spec2Model ----
(***************************************************************************)
(* Model of the cdiocddasrc element (ext/cdio/gstcdiocddasrc.c): the       *)
(* open / read_sector / close virtual methods the CDDA base class calls,   *)
(* and the read-speed property the application sets from its own thread.   *)
(*                                                                         *)
(* libcdio, the pad allocator and the element's message bus are the        *)
(* environment: every answer they give is an input drawn with \E in the    *)
(* step that asks for it.  What a call did that its caller can see (return *)
(* value, errors posted, tracks added, library calls issued) is recorded   *)
(* in observation variables that describe the most recent call.            *)
(***************************************************************************)
EXTENDS Integers, Sequences, FiniteSets

(* ---------------------------- bounds ----------------------------------- *)
MaxTracks == 2
MaxLsn == 1
MaxSectors == 2

(* --------------------------- constants --------------------------------- *)
DEFAULT_READ_SPEED == -1
ReadSpeedMin == -1
ReadSpeedMax == 100
CDIO_CD_FRAMESIZE_RAW == 2352

NULL == "NULL"
HANDLE == "CdIo"

CDIO_DISC_MODE_CD_DA == "CD_DA"
CDIO_DISC_MODE_CD_MIXED == "CD_MIXED"
TRACK_FORMAT_AUDIO == "AUDIO"

(* Values the read-speed property can be given: the ends of the range the  *)
(* param spec declares and one value inside it.                            *)
SpeedInputs == {ReadSpeedMin, 1, ReadSpeedMax}

(* Answers of libcdio.                                                     *)
DiscModes == {CDIO_DISC_MODE_CD_DA, CDIO_DISC_MODE_CD_MIXED, "CD_DATA", "ERROR"}
FirstTracks == {-1, 1}
NumTracks == -1 .. MaxTracks
TrackFormats == {TRACK_FORMAT_AUDIO, "DATA"}
TrackInfo == [lsn : 0 .. MaxLsn, sec_count : 0 .. MaxSectors,
              format : TrackFormats, cdtext : BOOLEAN]
Devices == {NULL, "/dev/cdrom"}
(* LIBCDIO_VERSION_NUM >= 76 or not: fixed when the element is built.      *)
Builds == {"cdio76", "cdio_old"}

NoBuf == [allocated |-> FALSE, size |-> 0, written |-> 0, refs |-> 0]
(* GstCddaBaseSrcTrack track = { 0, }                                      *)
NoTrack == [num |-> 0, is_audio |-> FALSE, start |-> 0, end |-> 0, tags |-> NULL]
NoInfo == [lsn |-> 0, sec_count |-> 0, format |-> "none", cdtext |-> FALSE]

VARIABLES
  cdio,         \* src->cdio: NULL or the handle cdio_open returned
  read_speed,   \* src->read_speed
  build,        \* which side of #if (LIBCDIO_VERSION_NUM >= 76) was compiled
  live,         \* handles cdio_open returned and cdio_destroy has not released
  pc,           \* position of the thread inside open(): idle, speed, tracks, aborted
  first_track,  \* open()'s local
  num_tracks,   \* open()'s local
  i,            \* open()'s loop counter
  op,           \* the most recent call
  ret,          \* its return value
  errors,       \* GST_ELEMENT_ERRORs it posted
  libOpen,      \* what cdio_open answered in it
  discmode,     \* what cdio_get_discmode answered in it
  cmpSpeed,     \* the read_speed value line 285 compared with -1
  speedCalls,   \* the speeds it passed to cdio_set_speed
  ntracks,      \* how many tracks it passed to gst_cdda_base_src_add_track
  track,        \* the last of them
  info,         \* libcdio's answers for that track
  prev,         \* the track added before it
  prevInfo,     \* libcdio's answers for that one
  buf,          \* the buffer it allocated
  libRead,      \* cdio_read_audio_sector: not_issued, ok, error
  got           \* the value the last get_property returned, in a set; empty
                \* before the first get and once read_speed is set again

vars == <<cdio, read_speed, build, live, pc, first_track, num_tracks, i, op,
          ret, errors, libOpen, discmode, cmpSpeed, speedCalls, ntracks, track,
          info, prev, prevInfo, buf, libRead, got>>

(* the tracks the host has been given by the most recent call              *)
added == <<ntracks, track, info, prev, prevInfo>>
(* open()'s locals                                                         *)
locals == <<first_track, num_tracks, i>>

(* gst_cdio_cdda_src_init                                                  *)
Init ==
  /\ cdio = NULL
  /\ read_speed = DEFAULT_READ_SPEED
  /\ build \in Builds
  /\ live = 0
  /\ pc = "idle"
  /\ first_track = 0
  /\ num_tracks = 0
  /\ i = 0
  /\ op = "none"
  /\ ret = "none"
  /\ errors = 0
  /\ libOpen = "none"
  /\ discmode = "none"
  /\ cmpSpeed = "none"
  /\ speedCalls = <<>>
  /\ ntracks = 0
  /\ track = NoTrack
  /\ info = NoInfo
  /\ prev = NoTrack
  /\ prevInfo = NoInfo
  /\ buf = NoBuf
  /\ libRead = "not_issued"
  /\ got = {}

(* ------------------------------ open ----------------------------------- *)

(* IsAudioDisc without the mixed-mode case                                 *)
IsAudioDisc_OnlyCdDa(mode) == mode = CDIO_DISC_MODE_CD_DA

(* line 273: the disc modes open() accepts                                 *)
IsAudioDisc(mode) ==
  mode = CDIO_DISC_MODE_CD_DA \/ mode = CDIO_DISC_MODE_CD_MIXED

(* HasNoTracks without the test of the first track number                 *)
HasNoTracks_IgnoresFirst(first, num) == num <= 0

(* line 282: nothing to enumerate                                          *)
HasNoTracks(first, num) == num <= 0 \/ first < 0

(* TrackEnd as an exclusive end                                            *)
TrackEnd_Exclusive(start, len_sectors) == start + len_sectors

(* line 308                                                                *)
TrackEnd(start, len_sectors) == start + len_sectors - 1

(* line 210                                                                *)
notcdio_track_is_audio_track(format) == format = TRACK_FORMAT_AUDIO

(* gst_cdio_cdda_src_get_cdtext: tags only when built against a libcdio    *)
(* with CD-TEXT and the track has some                                     *)
get_cdtext(t) ==
  IF build = "cdio76" /\ t.cdtext THEN "TAGS" ELSE NULL

(* MakeTrack that numbers the tracks from the loop counter alone           *)
MakeTrack_IgnoresFirst(n, first, t) ==
  [num      |-> n,
   is_audio |-> notcdio_track_is_audio_track(t.format),
   start    |-> t.lsn,
   end      |-> TrackEnd(t.lsn, t.sec_count),
   tags     |-> get_cdtext(t)]

(* lines 297-309: the track one pass of the loop builds, n counted from 0  *)
MakeTrack(n, first, t) ==
  [num      |-> n + first,
   is_audio |-> notcdio_track_is_audio_track(t.format),
   start    |-> t.lsn,
   end      |-> TrackEnd(t.lsn, t.sec_count),
   tags     |-> get_cdtext(t)]

(* no track has been added in this call                                    *)
NoneAdded ==
  /\ ntracks' = 0
  /\ track' = NoTrack
  /\ info' = NoInfo
  /\ prev' = NoTrack
  /\ prevInfo' = NoInfo

(* what a call that is not open() leaves of open()'s observations          *)
NotAnOpen ==
  /\ libOpen' = "none"
  /\ discmode' = "none"
  /\ cmpSpeed' = "none"
  /\ speedCalls' = <<>>
  /\ first_track' = 0
  /\ num_tracks' = 0
  /\ i' = 0
  /\ NoneAdded

(* open() without its assertions: it goes on to cdio_open, which succeeds  *)
(* on a data disc, and stores the new handle over the one held             *)
OpenAssertFails_Overwrites(device) ==
  /\ pc = "idle"
  /\ device = NULL \/ cdio # NULL
  /\ op' = "open"
  /\ cdio' = HANDLE
  /\ live' = live + 1
  /\ libOpen' = "ok"
  /\ discmode' = "CD_DATA"
  /\ errors' = 1
  /\ ret' = "FALSE"
  /\ cmpSpeed' = "none"
  /\ speedCalls' = <<>>
  /\ first_track' = 0
  /\ num_tracks' = 0
  /\ i' = 0
  /\ NoneAdded
  /\ buf' = NoBuf
  /\ libRead' = "not_issued"
  /\ UNCHANGED <<read_speed, build, got, pc>>

(* lines 256-257: one of open()'s assertions fails and the process aborts  *)
(* before anything else happens                                            *)
OpenAssertFails(device) ==
  /\ pc = "idle"
  /\ device = NULL \/ cdio # NULL
  /\ pc' = "aborted"
  /\ op' = "open"
  /\ ret' = "abort"
  /\ errors' = 0
  /\ buf' = NoBuf
  /\ libRead' = "not_issued"
  /\ NotAnOpen
  /\ UNCHANGED <<cdio, read_speed, build, got, live>>

(* OpenDeviceFails without the GST_ELEMENT_ERROR                           *)
OpenDeviceFails_Silent(device) ==
  /\ pc = "idle"
  /\ device # NULL /\ cdio = NULL
  /\ op' = "open"
  /\ cdio' = NULL
  /\ libOpen' = "failed"
  /\ errors' = 0
  /\ ret' = "FALSE"
  /\ discmode' = "none"
  /\ cmpSpeed' = "none"
  /\ speedCalls' = <<>>
  /\ first_track' = 0
  /\ num_tracks' = 0
  /\ i' = 0
  /\ NoneAdded
  /\ buf' = NoBuf
  /\ libRead' = "not_issued"
  /\ UNCHANGED <<read_speed, build, got, live, pc>>

(* lines 261-268: cdio_open fails                                          *)
OpenDeviceFails(device) ==
  /\ pc = "idle"
  /\ device # NULL /\ cdio = NULL
  /\ op' = "open"
  /\ cdio' = NULL
  /\ libOpen' = "failed"
  /\ errors' = 1
  /\ ret' = "FALSE"
  /\ discmode' = "none"
  /\ cmpSpeed' = "none"
  /\ speedCalls' = <<>>
  /\ first_track' = 0
  /\ num_tracks' = 0
  /\ i' = 0
  /\ NoneAdded
  /\ buf' = NoBuf
  /\ libRead' = "not_issued"
  /\ UNCHANGED <<read_speed, build, got, live, pc>>

(* lines 261-285: cdio_open succeeds; open() runs up to the comparison of  *)
(* src->read_speed with -1                                                 *)
OpenStart(device, mode, first, num) ==
  /\ pc = "idle"
  /\ device # NULL /\ cdio = NULL
  /\ op' = "open"
  /\ cdio' = HANDLE
  /\ live' = live + 1
  /\ libOpen' = "ok"
  /\ discmode' = mode
  /\ speedCalls' = <<>>
  /\ i' = 0
  /\ NoneAdded
  /\ buf' = NoBuf
  /\ libRead' = "not_issued"
  /\ IF ~IsAudioDisc(mode)
       THEN /\ errors' = 1
            /\ ret' = "FALSE"
            /\ first_track' = 0
            /\ num_tracks' = 0
            /\ cmpSpeed' = "none"
            /\ pc' = "idle"
       ELSE /\ errors' = 0
            /\ first_track' = first
            /\ num_tracks' = num
            /\ IF HasNoTracks(first, num)
                 THEN /\ ret' = "TRUE"
                      /\ cmpSpeed' = "none"
                      /\ pc' = "idle"
                 ELSE /\ ret' = "pending"
                      /\ cmpSpeed' = read_speed
                      /\ pc' = IF read_speed # -1 THEN "speed" ELSE "tracks"
  /\ UNCHANGED <<read_speed, build, got>>

(* OpenSetSpeed that gives up when cdio_set_speed reports an error         *)
OpenSetSpeed_FailsOnError(rc) ==
  /\ pc = "speed"
  /\ speedCalls' = IF build = "cdio76"
                     THEN Append(speedCalls, read_speed)
                     ELSE speedCalls
  /\ IF build = "cdio76" /\ rc # 0
       THEN errors' = 1 /\ ret' = "FALSE" /\ pc' = "idle"
       ELSE errors' = errors /\ ret' = ret /\ pc' = "tracks"
  /\ UNCHANGED <<cdio, read_speed, build, got, live, locals, op, libOpen,
                 discmode, cmpSpeed, added, buf, libRead>>

(* lines 286-291: src->read_speed is read again and handed to              *)
(* cdio_set_speed, whose result rc is ignored; an old libcdio only warns   *)
OpenSetSpeed(rc) ==
  /\ pc = "speed"
  /\ speedCalls' = IF build = "cdio76"
                     THEN Append(speedCalls, read_speed)
                     ELSE speedCalls
  /\ pc' = "tracks"
  /\ UNCHANGED <<cdio, read_speed, build, got, live, locals, op, ret, errors,
                 libOpen, discmode, cmpSpeed, added, buf, libRead>>

(* OpenAddTrack that leaves out the tracks that are not audio              *)
OpenAddTrack_SkipsData(t) ==
  /\ pc = "tracks"
  /\ i < num_tracks
  /\ build = "cdio76" \/ ~t.cdtext
  /\ IF notcdio_track_is_audio_track(t.format)
       THEN /\ prev' = track
            /\ prevInfo' = info
            /\ track' = MakeTrack(i, first_track, t)
            /\ info' = t
            /\ ntracks' = ntracks + 1
       ELSE UNCHANGED added
  /\ i' = i + 1
  /\ UNCHANGED <<cdio, read_speed, build, got, live, pc, first_track,
                 num_tracks, op, ret, errors, libOpen, discmode, cmpSpeed,
                 speedCalls, buf, libRead>>

(* lines 296-312: one pass of the loop; t is what libcdio answers for      *)
(* track i + first_track                                                   *)
OpenAddTrack(t) ==
  /\ pc = "tracks"
  /\ i < num_tracks
  /\ build = "cdio76" \/ ~t.cdtext
  /\ prev' = track
  /\ prevInfo' = info
  /\ track' = MakeTrack(i, first_track, t)
  /\ info' = t
  /\ ntracks' = ntracks + 1
  /\ i' = i + 1
  /\ UNCHANGED <<cdio, read_speed, build, got, live, pc, first_track, num_tracks,
                 op, ret, errors, libOpen, discmode, cmpSpeed, speedCalls, buf,
                 libRead>>

(* lines 296, 314: the loop ends and open() returns TRUE                   *)
OpenReturn ==
  /\ pc = "tracks"
  /\ ~(i < num_tracks)
  /\ ret' = "TRUE"
  /\ pc' = "idle"
  /\ UNCHANGED <<cdio, read_speed, build, got, live, locals, op, errors, libOpen,
                 discmode, cmpSpeed, speedCalls, added, buf, libRead>>

(* ------------------------------ close ---------------------------------- *)

(* line 322: the assertion fails                                           *)
CloseAssertFails ==
  /\ pc = "idle"
  /\ cdio = NULL
  /\ pc' = "aborted"
  /\ op' = "close"
  /\ ret' = "abort"
  /\ errors' = 0
  /\ buf' = NoBuf
  /\ libRead' = "not_issued"
  /\ NotAnOpen
  /\ UNCHANGED <<cdio, read_speed, build, got, live>>

(* Close that forgets the handle without cdio_destroy                      *)
Close_SkipsDestroy ==
  /\ pc = "idle"
  /\ cdio # NULL
  /\ cdio' = NULL
  /\ op' = "close"
  /\ ret' = "void"
  /\ errors' = 0
  /\ buf' = NoBuf
  /\ libRead' = "not_issued"
  /\ NotAnOpen
  /\ UNCHANGED <<read_speed, build, got, live, pc>>

(* lines 324-327                                                           *)
Close ==
  /\ pc = "idle"
  /\ cdio # NULL
  /\ live' = live - 1
  /\ cdio' = NULL
  /\ op' = "close"
  /\ ret' = "void"
  /\ errors' = 0
  /\ buf' = NoBuf
  /\ libRead' = "not_issued"
  /\ NotAnOpen
  /\ UNCHANGED <<read_speed, build, got, pc>>

(* --------------------------- read_sector ------------------------------- *)

(* lines 185-192: gst_pad_alloc_buffer does not return GST_FLOW_OK         *)
ReadSectorNoBuffer ==
  /\ pc = "idle"
  /\ op' = "read_sector"
  /\ ret' = NULL
  /\ errors' = 0
  /\ buf' = NoBuf
  /\ libRead' = "not_issued"
  /\ NotAnOpen
  /\ UNCHANGED <<cdio, read_speed, build, got, live, pc>>

(* ReadSector without the gst_buffer_unref on the error path               *)
ReadSector_LeaksOnError(rc) ==
  /\ pc = "idle"
  /\ op' = "read_sector"
  /\ libRead' = IF rc = 0 THEN "ok" ELSE "error"
  /\ errors' = IF rc # 0 THEN 1 ELSE 0
  /\ buf' = [allocated |-> TRUE, size |-> CDIO_CD_FRAMESIZE_RAW,
             written |-> IF rc = 0 /\ cdio # NULL THEN CDIO_CD_FRAMESIZE_RAW
                         ELSE 0,
             refs |-> 1]
  /\ ret' = IF rc # 0 THEN NULL ELSE "buf"
  /\ NotAnOpen
  /\ UNCHANGED <<cdio, read_speed, build, got, live, pc>>

(* lines 185-204: a buffer of CDIO_CD_FRAMESIZE_RAW bytes is allocated and *)
(* cdio_read_audio_sector is called on src->cdio, whatever it is.  rc is   *)
(* the library's answer: 0 after it wrote the whole frame, non-zero on     *)
(* error.  On a NULL handle the library writes nothing; which of the two   *)
(* it answers depends on the libcdio version.                              *)
ReadSector(rc) ==
  /\ pc = "idle"
  /\ op' = "read_sector"
  /\ libRead' = IF rc = 0 THEN "ok" ELSE "error"
  /\ IF rc # 0
       THEN /\ errors' = 1
            /\ buf' = [allocated |-> TRUE, size |-> CDIO_CD_FRAMESIZE_RAW,
                       written |-> 0, refs |-> 0]
            /\ ret' = NULL
       ELSE /\ errors' = 0
            /\ buf' = [allocated |-> TRUE, size |-> CDIO_CD_FRAMESIZE_RAW,
                       written |-> IF cdio # NULL THEN CDIO_CD_FRAMESIZE_RAW
                                   ELSE 0,
                       refs |-> 1]
            /\ ret' = "buf"
  /\ NotAnOpen
  /\ UNCHANGED <<cdio, read_speed, build, got, live, pc>>

(* ---------------------------- properties ------------------------------- *)

(* SetProperty that also hands the new speed to a handle that is open     *)
SetProperty_AppliesToOpenHandle(speed) ==
  /\ pc # "aborted"
  /\ read_speed' = speed
  /\ got' = {}
  /\ speedCalls' = IF cdio # NULL THEN Append(speedCalls, speed) ELSE speedCalls
  /\ UNCHANGED <<cdio, build, live, pc, locals, op, ret, errors, libOpen,
                 discmode, cmpSpeed, added, buf, libRead>>

(* gst_cdio_cdda_src_set_property, PROP_READ_SPEED: called from the        *)
(* application's thread, at any point of the streaming thread's calls      *)
SetProperty(speed) ==
  /\ pc # "aborted"
  /\ read_speed' = speed
  /\ got' = {}
  /\ UNCHANGED <<cdio, build, live, pc, locals, op, ret, errors, libOpen,
                 discmode, cmpSpeed, speedCalls, added, buf, libRead>>

(* a param spec that accepts every integer                                 *)
ParamSpecAccepts_AnyInt(value) == TRUE

(* lines 360-363: the range of the "read-speed" param spec.  GObject       *)
(* validates a value against it before it calls set_property, and drops a  *)
(* value outside it with a warning.                                        *)
ParamSpecAccepts(value) == ReadSpeedMin <= value /\ value <= ReadSpeedMax

(* what g_object_set is called with: the accepted values and the first     *)
(* value outside the range on either side                                  *)
SetInputs == SpeedInputs \cup {ReadSpeedMin - 1, ReadSpeedMax + 1}

(* g_object_set with a value the param spec does not accept:               *)
(* set_property is not called and nothing changes                          *)
SetPropertyRejected(value) ==
  /\ pc # "aborted"
  /\ ~ParamSpecAccepts(value)
  /\ UNCHANGED vars

(* get_property that answers the default instead of the stored value       *)
GetProperty_ReturnsDefault ==
  /\ pc # "aborted"
  /\ got' = {DEFAULT_READ_SPEED}
  /\ UNCHANGED <<cdio, read_speed, build, live, pc, locals, op, ret, errors,
                 libOpen, discmode, cmpSpeed, speedCalls, added, buf, libRead>>

(* gst_cdio_cdda_src_get_property, PROP_READ_SPEED                         *)
GetProperty ==
  /\ pc # "aborted"
  /\ got' = {read_speed}
  /\ UNCHANGED <<cdio, read_speed, build, live, pc, locals, op, ret, errors,
                 libOpen, discmode, cmpSpeed, speedCalls, added, buf, libRead>>

Next ==
  \/ \E device \in Devices : OpenAssertFails(device)
  \/ \E device \in Devices : OpenDeviceFails(device)
  \/ \E device \in Devices, mode \in DiscModes, first \in FirstTracks,
        num \in NumTracks : OpenStart(device, mode, first, num)
  \/ \E rc \in {0, -1} : OpenSetSpeed(rc)
  \/ \E t \in TrackInfo : OpenAddTrack(t)
  \/ OpenReturn
  \/ CloseAssertFails
  \/ Close
  \/ ReadSectorNoBuffer
  \/ \E rc \in {0, -1} : ReadSector(rc)
  \/ \E speed \in SetInputs : ParamSpecAccepts(speed) /\ SetProperty(speed)
  \/ \E value \in SetInputs : SetPropertyRejected(value)
  \/ GetProperty

Spec == Init /\ [][Next]_vars

(* ------------------------------ claims --------------------------------- *)

(* an open() or a read_sector that has returned                            *)
OpenReturned == op = "open" /\ ret \in {"TRUE", "FALSE"}
OpenFailed == op = "open" /\ ret = "FALSE"
AcceptedMode == discmode \in {"CD_DA", "CD_MIXED"}

(* C1: whenever open() has returned failure the session is Closed: no      *)
(* handle is held, and the handle acquired during that open is released.   *)
C1_FailedOpenLeavesClosed ==
  OpenFailed => (cdio = NULL /\ live = 0)

(* C2: open() returns failure exactly when cdio_open failed or the disc    *)
(* mode is neither CD-DA nor mixed; it goes on (and in the end returns     *)
(* success) for every other disc, and a failing open adds no track.        *)
C2_OpenFailsExactlyOnBadDeviceOrMode ==
  /\ OpenReturned =>
       ((ret = "FALSE") <=> (libOpen = "failed" \/ (libOpen = "ok" /\ ~AcceptedMode)))
  /\ (op = "open" /\ ret = "pending") => (libOpen = "ok" /\ AcceptedMode)
  /\ OpenFailed => ntracks = 0
  /\ (op = "open" /\ ntracks > 0) => (libOpen = "ok" /\ AcceptedMode)

C2_Witness ==
  OpenFailed /\ libOpen = "ok" /\ discmode = "CD_DATA" /\ ntracks = 0

(* C3: a read_sector issued while no handle is held never returns a buffer *)
(* and never reaches cdio_read_audio_sector.                               *)
C3_ReadWhileClosedIsRejected ==
  (op = "read_sector" /\ cdio = NULL) => (ret = NULL /\ libRead = "not_issued")

(* C4: the speed open() hands to cdio_set_speed is the value it compared   *)
(* with -1, so it is never -1 and never a value written after the          *)
(* comparison.                                                             *)
C4_SpeedSampledOnce ==
  \A k \in 1 .. Len(speedCalls) :
    speedCalls[k] # -1 /\ speedCalls[k] = cmpSpeed

(* C5: cdio_set_speed is called only from inside open(), at most once per  *)
(* open and with the stored read_speed; setting read_speed never causes a  *)
(* speed call, and the next open() that gets as far as the comparison      *)
(* compares the stored value.                                              *)
C5_SpeedAppliedOnlyInsideOpen ==
  [][/\ (speedCalls' # speedCalls /\ speedCalls' # <<>>) =>
          /\ pc = "speed" /\ op = "open" /\ ret = "pending"
          /\ speedCalls' = Append(speedCalls, read_speed)
          /\ Len(speedCalls') = 1
     /\ read_speed' # read_speed => speedCalls' = speedCalls
     /\ (pc = "idle" /\ pc' \in {"speed", "tracks"}) => cmpSpeed' = read_speed
    ]_vars

(* read_speed was set to 100 after an open() that applied no speed         *)
C5_Witness ==
  /\ pc = "idle" /\ op = "open" /\ ret = "TRUE" /\ cdio # NULL /\ ntracks > 0
  /\ build = "cdio76" /\ cmpSpeed = -1 /\ read_speed = 100 /\ speedCalls = <<>>

(* C6: every track open() reports has start <= end.                        *)
C6_StartNotAfterEnd ==
  (op = "open" /\ ntracks > 0) => track.start <= track.end

(* C7: when libcdio's starts of two consecutive tracks ascend and the      *)
(* earlier track's length is the distance between them, the two are        *)
(* reported with ascending numbers and the earlier one ends before the     *)
(* later one starts.                                                       *)
C7_AscendingNonOverlapping ==
  (/\ op = "open" /\ ntracks >= 2
   /\ prevInfo.lsn <= info.lsn
   /\ prevInfo.sec_count = info.lsn - prevInfo.lsn)
  => (prev.num < track.num /\ prev.end < track.start)

C7_Witness ==
  /\ op = "open" /\ ret = "TRUE" /\ ntracks = 2
  /\ prevInfo.lsn = 0 /\ prevInfo.sec_count = 1 /\ info.lsn = 1
  /\ prev.end = 0 /\ track.start = 1

(* C8: on an accepted disc with no tracks or a negative first track number *)
(* open() returns TRUE at once: no track, no error, no speed call, the     *)
(* handle held.                                                            *)
C8_NoTracksIsSuccess ==
  (/\ op = "open" /\ libOpen = "ok" /\ AcceptedMode
   /\ (num_tracks <= 0 \/ first_track < 0))
  => /\ ret = "TRUE" /\ pc = "idle"
     /\ ntracks = 0 /\ errors = 0 /\ speedCalls = <<>>
     /\ cdio = HANDLE /\ live = 1

C8_Witness ==
  /\ op = "open" /\ ret = "TRUE" /\ discmode = "CD_DA" /\ num_tracks = 0
  /\ cdio = HANDLE /\ ntracks = 0

(* C9: a read_sector with the handle held returns a buffer of 2352 bytes   *)
(* wholly written by a successful read and referenced by the caller alone, *)
(* or returns none; a buffer whose read failed is released, not returned.  *)
C9_ReadOutcome ==
  (op = "read_sector" /\ cdio # NULL) =>
    /\ \/ /\ ret = "buf" /\ libRead = "ok" /\ buf.allocated
          /\ buf.size = 2352 /\ buf.written = 2352 /\ buf.refs = 1
       \/ ret = NULL /\ buf.refs = 0
    /\ libRead = "error" => (ret = NULL /\ buf.allocated /\ buf.refs = 0)

C9_Witness ==
  /\ op = "read_sector" /\ cdio # NULL /\ libRead = "error"
  /\ ret = NULL /\ buf.allocated /\ buf.refs = 0

(* C10, as stated: every open() that fails and every read_sector that      *)
(* returns no buffer has posted exactly one error; successful calls none.  *)
(* Read for the calls the contract allows: read_sector with a handle held. *)
C10_EveryFailurePostsOneError ==
  /\ OpenFailed => errors = 1
  /\ (op = "read_sector" /\ cdio # NULL /\ ret = NULL) => errors = 1
  /\ ((op = "open" /\ ret = "TRUE") \/ (op = "read_sector" /\ ret = "buf"))
       => errors = 0

(* C10, amended: every open() that fails and every read_sector whose       *)
(* cdio_read_audio_sector reports an error has posted exactly one error; a *)
(* read_sector that got no buffer from the allocator returns none and      *)
(* posts nothing; successful calls post nothing.                           *)
C10_FailurePostsOneErrorUnlessNoBuffer ==
  /\ OpenFailed => errors = 1
  /\ (op = "read_sector" /\ libRead = "error") => (ret = NULL /\ errors = 1)
  /\ (op = "read_sector" /\ ret = NULL /\ libRead # "error")
       => (~buf.allocated /\ libRead = "not_issued" /\ errors = 0)
  /\ ((op = "open" /\ ret = "TRUE") \/ (op = "read_sector" /\ ret = "buf"))
       => errors = 0

C10_Witness ==
  OpenFailed /\ libOpen = "failed" /\ errors = 1 /\ cdio = NULL

(* C11: the stored read_speed is always in [-1,100], whatever value        *)
(* g_object_set was called with, and what get_property returned is the     *)
(* stored value.                                                           *)
C11_ReadSpeedInRange ==
  /\ read_speed \in -1 .. 100
  /\ \A value \in got : value = read_speed

(* a value was stored and read back, with out-of-range sets tried before   *)
C11_Witness ==
  read_speed = 100 /\ got = {100}

(* C12: a successful open() on a disc with count >= 1 tracks adds exactly  *)
(* count tracks, the k-th numbered first + k - 1, each starting at         *)
(* libcdio's start sector and ending at start + length - 1.                *)
C12_TracksAsEnumerated ==
  /\ (op = "open" /\ ntracks >= 1) =>
       /\ ntracks <= num_tracks
       /\ track.num = first_track + ntracks - 1
       /\ track.start = info.lsn
       /\ track.end = info.lsn + info.sec_count - 1
  /\ (op = "open" /\ ntracks >= 2) =>
       /\ prev.num = first_track + ntracks - 2
       /\ prev.start = prevInfo.lsn
       /\ prev.end = prevInfo.lsn + prevInfo.sec_count - 1
  /\ (op = "open" /\ ret = "TRUE" /\ num_tracks >= 1 /\ first_track >= 0) =>
       ntracks = num_tracks

C12_Witness ==
  /\ op = "open" /\ ret = "TRUE" /\ first_track = 1 /\ num_tracks = 2
  /\ ntracks = 2 /\ prev.num = 1 /\ track.num = 2
  /\ info.lsn = 1 /\ info.sec_count = 2 /\ track.start = 1 /\ track.end = 2

(* C13: every pass of the loop adds its track, whatever the track's format *)
(* and whether or not it has CD-TEXT: the track is audio exactly when      *)
(* libcdio says its format is audio, it has no tags when libcdio has no    *)
(* CD-TEXT for it, and neither case posts an error, fails open() or        *)
(* shortens the list.                                                      *)
C13_NoTrackFiltered ==
  /\ (op = "open" /\ ntracks >= 1) =>
       /\ track.is_audio <=> (info.format = "AUDIO")
       /\ ~info.cdtext => track.tags = NULL
       /\ errors = 0 /\ ret # "FALSE"
  /\ (op = "open" /\ ntracks >= 2) =>
       /\ prev.is_audio <=> (prevInfo.format = "AUDIO")
       /\ ~prevInfo.cdtext => prev.tags = NULL
  /\ (op = "open" /\ pc = "tracks") => ntracks = i
  /\ (op = "open" /\ ret = "TRUE" /\ num_tracks >= 1 /\ first_track >= 0) =>
       ntracks = i /\ i = num_tracks

(* an audio track with CD-TEXT followed by a data track without            *)
C13_Witness ==
  /\ op = "open" /\ ret = "TRUE" /\ ntracks = 2 /\ num_tracks = 2
  /\ prevInfo.format = "AUDIO" /\ prevInfo.cdtext /\ prev.is_audio
  /\ info.format = "DATA" /\ ~info.cdtext /\ ~track.is_audio
  /\ track.tags = NULL

(* C14: no step acquires a handle or overwrites src->cdio while a handle   *)
(* is held, and no step releases one while none is held; a call that stops *)
(* at an assertion has changed neither the handle nor the library's        *)
(* handles and has posted, added and read nothing.  So the library has at  *)
(* most one handle open, the one src->cdio holds.                          *)
C14_ViolationsTrappedBeforeEffect ==
  [][/\ cdio # NULL =>
          \/ cdio' = cdio /\ live' = live
          \/ cdio' = NULL /\ live' = live - 1
     /\ cdio = NULL => live' >= live
     /\ pc' = "aborted" =>
          /\ cdio' = cdio /\ live' = live /\ read_speed' = read_speed
          /\ errors' = 0 /\ ntracks' = 0 /\ speedCalls' = <<>>
          /\ libOpen' = "none" /\ libRead' = "not_issued"
     /\ live' \in {0, 1}
     /\ live' = 1 <=> cdio' # NULL
    ]_vars

(* open() was called with the handle held and stopped at its assertion     *)
C14_Witness ==
  pc = "aborted" /\ op = "open" /\ ret = "abort" /\ cdio = HANDLE /\ live = 1

(* C15: a close() called with the handle held releases that handle once    *)
(* and clears src->cdio, without an assertion failing, an error or a       *)
(* change of read_speed; after it open()'s precondition holds again, and   *)
(* after an open() that returned TRUE close()'s precondition holds.        *)
C15_CloseReleasesOnce ==
  [][/\ (cdio # NULL /\ op' = "close") =>
          /\ cdio' = NULL /\ live' = live - 1 /\ live' = 0
          /\ pc' = "idle" /\ ret' = "void" /\ errors' = 0
          /\ read_speed' = read_speed /\ got' = got
     /\ (op' = "close" /\ ret' = "void") => (cdio' = NULL /\ pc' = "idle")
     /\ (op' = "open" /\ ret' = "TRUE") => (cdio' # NULL /\ pc' = "idle")
    ]_vars

(* closed after an open, with the read speed that was set still stored     *)
C15_Witness ==
  /\ op = "close" /\ ret = "void" /\ pc = "idle"
  /\ cdio = NULL /\ live = 0 /\ read_speed = 100

(* C16, as stated: an open() that returned TRUE with tracks has called     *)
(* cdio_set_speed exactly when the read_speed it found was not -1; an      *)
(* open() that failed or found no tracks has not called it.                *)
C16_SpeedAppliedIffConfigured ==
  /\ (op = "open" /\ ret = "TRUE" /\ ntracks >= 1) =>
       ((speedCalls # <<>>) <=> (cmpSpeed # -1))
  /\ (op = "open" /\ (ret = "FALSE" \/ (ret = "TRUE" /\ ntracks = 0))) =>
       speedCalls = <<>>

(* C16, amended: it has called cdio_set_speed exactly when the read_speed  *)
(* it compared was not -1 and the element is built against a libcdio that  *)
(* has the call; the speed step, whatever cdio_set_speed answers, goes on  *)
(* to the track loop with the result, the errors, the handle and the       *)
(* tracks as they were; an open() that failed or found no tracks has not   *)
(* called it.                                                              *)
C16_SpeedAppliedIffSupported ==
  [][/\ (op' = "open" /\ ret' = "TRUE" /\ ntracks' >= 1) =>
          ((speedCalls' # <<>>) <=> (cmpSpeed' # -1 /\ build' = "cdio76"))
     /\ (op' = "open" /\ (ret' = "FALSE" \/ (ret' = "TRUE" /\ ntracks' = 0))) =>
          speedCalls' = <<>>
     /\ (pc = "speed" /\ pc' # "speed") =>
          /\ pc' = "tracks" /\ ret' = ret /\ errors' = errors
          /\ cdio' = cdio /\ live' = live
          /\ ntracks' = ntracks /\ track' = track /\ prev' = prev
    ]_vars

C16_Witness ==
  /\ op = "open" /\ ret = "TRUE" /\ ntracks >= 1 /\ build = "cdio76"
  /\ cmpSpeed = 100 /\ speedCalls = <<100>>

====
